---- MODULE Spec2Model ----
(***************************************************************************)
(* A model of astro_utilities/utilities.py: symmetric_match (the mutual    *)
(* nearest-neighbour catalogue matcher) and reduced_chi_sq, and of         *)
(* astro_utilities/phot.py: aperture_grid.                                 *)
(*                                                                         *)
(* Angles are integers counting arcseconds, so a table cell holding d      *)
(* degrees is the integer 3600*d.  Every valid sky position of the model   *)
(* lies on the equator (dec = 0), where the great-circle separation of two *)
(* points is exactly the shorter arc between their right ascensions.       *)
(* The column-name parameters ra_col_1, ra_col_2, dec_col_1, dec_col_2     *)
(* keep their defaults "ra" and "dec".                                     *)
(***************************************************************************)
EXTENDS Integers, Sequences, FiniteSets, TLC

VARIABLES
    pc,             \* position in symmetric_match
    table_1,        \* first input table
    table_2,        \* second input table
    max_sep,        \* maximum separation, arcseconds
    coords_1,       \* SkyCoord of table_1
    coords_2,       \* SkyCoord of table_2
    match_idx_12,   \* for each row of table_1, its match in table_2
    sep_12,         \* the separation of that match, arcseconds
    match_idx_21,   \* for each row of table_2, its match in table_1
    idx_1,          \* loop index of the symmetry loop, then the list of table_1 indices
    idx_2,          \* the list of table_2 indices
    sep,            \* the list of separations
    symmetric_12,   \* the triples collected by the symmetry loop
    matches,        \* the output table under construction
    matches_2,      \* the matched rows of table_2
    cols,           \* the column names the merge loop still has to visit
    err,            \* the exception raised, if any
    result,         \* the table returned, if any
    model,          \* reduced_chi_sq: argument
    data,           \* reduced_chi_sq: argument
    errors,         \* reduced_chi_sq: argument
    chi_sq,         \* reduced_chi_sq: accumulator, a fraction <<numerator, denominator>>
    i,              \* reduced_chi_sq: loop index
    chi_pc,         \* reduced_chi_sq: position
    chi_out,        \* reduced_chi_sq: value returned or exception raised
    grid_pc,        \* aperture_grid: position
    naxis,          \* aperture_grid: NAXIS1 and NAXIS2 of the header of image
    files,          \* aperture_grid: the files that exist, with what they hold
    spacing,        \* aperture_grid: argument
    output,         \* aperture_grid: argument, "" standing for False
    clobber,        \* aperture_grid: argument
    x_max,          \* aperture_grid: local
    y_max,          \* aperture_grid: local
    ordered_pairs,  \* aperture_grid: local
    grid_out        \* aperture_grid: list returned or exception raised

matchVars == <<pc, table_1, table_2, max_sep, coords_1, coords_2, match_idx_12,
               sep_12, match_idx_21, idx_1, idx_2, sep, symmetric_12, matches,
               matches_2, cols, err, result>>
chiVars == <<model, data, errors, chi_sq, i, chi_pc, chi_out>>
gridVars == <<grid_pc, naxis, files, spacing, output, clobber, x_max, y_max,
              ordered_pairs, grid_out>>
vars == <<matchVars, chiVars, gridVars>>

----------------------------------------------------------------------------
(* Bounds of the model *)

\* The largest number of rows of an input table.
MaxRows == 2
\* The largest length of an argument list of reduced_chi_sq.
MaxLen == 2
\* The largest NAXIS1 and NAXIS2 of an image given to aperture_grid.
MaxAxis == 3

----------------------------------------------------------------------------
(* Angles *)

\* 360 degrees and 90 degrees, in arcseconds
FullCircle == 360 * 3600
QuarterCircle == 90 * 3600

\* The default of the max_sep parameter.
DefaultMaxSep == 3

Abs(x) == IF x < 0 THEN 0 - x ELSE x
Min(x, y) == IF x <= y THEN x ELSE y

\* A numeric cell and a cell no angle can be read from.
Num(v) == [num |-> TRUE, v |-> v]
NotANumber == [num |-> FALSE, v |-> 0]

----------------------------------------------------------------------------
(* Tables: a sequence of column names and a sequence of rows, each row a   *)
(* function from the column names to cells.                                *)

Range(s) == {s[k] : k \in 1..Len(s)}
Contains(s, x) == \E k \in 1..Len(s) : s[k] = x

\* The value the model puts in column c of row k of table t (1 or 2), for a
\* column other than ra and dec: different for every table, row and column.
ColCode(c) ==
    CASE c = "flux" -> 1
      [] c = "flux_2" -> 2
      [] c = "sep [arcsec]" -> 3
      [] OTHER -> 4
CellValue(t, k, c) == Num(100 * t + 10 * ColCode(c) + k)

\* The table t with the sky positions pos (a sequence of [ra, dec] cells) and
\* the extra columns extra.
MkTable(t, pos, extra) ==
    LET names == <<"ra", "dec">> \o extra
    IN  [colnames |-> names,
         rows |-> [k \in 1..Len(pos) |->
                     [c \in Range(names) |->
                        IF c = "ra" THEN pos[k].ra
                        ELSE IF c = "dec" THEN pos[k].dec
                        ELSE CellValue(t, k, c)]]]

NoTable == [colnames |-> <<>>, rows |-> <<>>]
NoError == [type |-> "none", step |-> "none", rows |-> {}]

\* An exception of the given type raised at the given step.  The exceptions of
\* the code come from astropy and from Python: none names a row of a table.
Raised(type, step) == [type |-> type, step |-> step, rows |-> {}]

SeqsUpTo(S, n) == UNION {[1..k -> S] : k \in 0..n}

\* table[idx] with idx a list of row indices: a new table holding those rows,
\* in the order of idx.  (TakeRows_Reversed is a faulty variant that holds
\* them in the reverse order.)
TakeRows_Reversed(t, idx) ==
    [colnames |-> t.colnames,
     rows |-> [k \in 1..Len(idx) |-> t.rows[idx[Len(idx) + 1 - k]]]]
TakeRows(t, idx) ==
    [colnames |-> t.colnames,
     rows |-> [k \in 1..Len(idx) |-> t.rows[idx[k]]]]

\* t[name]: the cells of one column.
Column(t, name) == [k \in 1..Len(t.rows) |-> t.rows[k][name]]

\* t.rename_column(old, new), for new not yet a column of t.
RenameColumn(t, old, new) ==
    LET names == [k \in 1..Len(t.colnames) |->
                    IF t.colnames[k] = old THEN new ELSE t.colnames[k]]
    IN  [colnames |-> names,
         rows |-> [k \in 1..Len(t.rows) |->
                     [c \in Range(names) |->
                        IF c = new THEN t.rows[k][old] ELSE t.rows[k][c]]]]

\* t.add_column(column), the column named name and holding values, for name
\* not yet a column of t.
AddColumn(t, name, values) ==
    LET names == Append(t.colnames, name)
    IN  [colnames |-> names,
         rows |-> [k \in 1..Len(t.rows) |->
                     [c \in Range(names) |->
                        IF c = name THEN values[k] ELSE t.rows[k][c]]]]

\* table[list of indices] builds a new table that owns its columns: renaming
\* a column of matches_2 is not a renaming in table_2.  (SharesColumns_View is
\* the faulty variant, a view of table_2, the frame property is tried against.)
SharesColumns_View == TRUE
SharesColumns == FALSE

----------------------------------------------------------------------------
(* Sky coordinates *)

\* Whether SkyCoord accepts the ra and dec columns of t: every cell is an
\* angle, and every latitude is within -90 and 90 degrees.  A longitude is
\* never refused.
\* (CoordsOk_AnyLatitude is a faulty variant that checks no latitude.)
CoordsOk_AnyLatitude(t) ==
    \A k \in 1..Len(t.rows) : t.rows[k]["ra"].num /\ t.rows[k]["dec"].num
CoordsOk(t) ==
    \A k \in 1..Len(t.rows) :
        /\ t.rows[k]["ra"].num
        /\ t.rows[k]["dec"].num
        /\ Abs(t.rows[k]["dec"].v) <= QuarterCircle

\* SkyCoord(t["ra"], t["dec"], unit=u.degree): a longitude is wrapped into
\* [0, 360 degrees).
SkyCoord(t) ==
    [k \in 1..Len(t.rows) |->
        [lon |-> t.rows[k]["ra"].v % FullCircle, lat |-> t.rows[k]["dec"].v]]

\* The angular separation of two points of the equator, in arcseconds.
Separation(p, q) ==
    LET d == Abs(p.lon - q.lon)
    IN  Min(d, FullCircle - d)

\* The rows of catalogcoord at the least separation from p.
Nearest(p, catalogcoord) ==
    {b \in 1..Len(catalogcoord) :
        \A c \in 1..Len(catalogcoord) :
            Separation(p, catalogcoord[b]) <= Separation(p, catalogcoord[c])}

\* match_coordinates_sky raises ValueError for a catalogue of length 0; the
\* coordinates to match may be of length 0.  (RefusesCatalog_Never is a faulty
\* variant that refuses nothing.)
RefusesCatalog_Never(catalogcoord) == FALSE
RefusesCatalog(catalogcoord) == Len(catalogcoord) = 0

\* match_coordinates_sky(matchcoord, catalogcoord), for a catalogue that is
\* not empty: every index array it may return.  Among several rows at the
\* same least separation the k-d tree search returns any one.
MatchCoordinatesSky(matchcoord, catalogcoord) ==
    {m \in [1..Len(matchcoord) -> 1..Len(catalogcoord)] :
        \A a \in 1..Len(matchcoord) : m[a] \in Nearest(matchcoord[a], catalogcoord)}

----------------------------------------------------------------------------
(* The calls the model makes *)

OnEquator(ra) == [ra |-> Num(ra), dec |-> Num(0)]

\* Right ascensions on both sides of the 0/360 degree boundary: separations
\* of 0, 1 and 2 arcseconds, and two rows at the same separation from a third.
ValidRa == {FullCircle - 1, 0, 1}
MaxSeps == {DefaultMaxSep - 2, DefaultMaxSep - 1}

\* Tables of any length, empty included, with the columns ra and dec alone.
PositionInputs ==
    {[t1 |-> MkTable(1, p1, <<>>), t2 |-> MkTable(2, p2, <<>>), max_sep |-> s] :
        p1 \in SeqsUpTo({OnEquator(ra) : ra \in ValidRa}, MaxRows),
        p2 \in SeqsUpTo({OnEquator(ra) : ra \in ValidRa}, MaxRows),
        s \in MaxSeps}

\* Tables with further columns, some of the same name in both tables, some
\* named as the columns the function itself adds.  Row k of table_1 lies 4k
\* arcseconds along the equator, and the rows of table_2 lie on the same
\* places in the reverse order.
ExtraCols == {<<>>, <<"flux">>, <<"flux_2">>, <<"flux", "flux_2">>, <<"sep [arcsec]">>}
ColumnInputs ==
    {[t1 |-> MkTable(1, [k \in 1..n1 |-> OnEquator(4 * k)], e1),
      t2 |-> MkTable(2, [k \in 1..n2 |-> OnEquator(4 * (MaxRows + 1 - k))], e2),
      max_sep |-> DefaultMaxSep] :
        n1 \in 1..MaxRows, n2 \in 1..MaxRows, e1 \in ExtraCols, e2 \in ExtraCols}

\* Tables, empty included, with cells SkyCoord may refuse: a right ascension
\* above 360 degrees, a declination above 90 degrees, a cell that is no angle.
OddPositions ==
    {OnEquator(0), OnEquator(FullCircle + 1),
     [ra |-> Num(0), dec |-> Num(QuarterCircle + 1)],
     [ra |-> NotANumber, dec |-> Num(0)]}
CoordinateInputs ==
    {[t1 |-> MkTable(1, p1, <<>>), t2 |-> MkTable(2, p2, <<>>), max_sep |-> DefaultMaxSep] :
        p1 \in SeqsUpTo(OddPositions, MaxRows),
        p2 \in SeqsUpTo(OddPositions, MaxRows)}

Inputs == PositionInputs \cup ColumnInputs \cup CoordinateInputs

----------------------------------------------------------------------------
(* reduced_chi_sq is idle while symmetric_match runs, and the reverse. *)

\* What a call of reduced_chi_sq ends with: the fraction returned or the
\* exception raised.
NoOutcome == [kind |-> "none", num |-> 0, den |-> 1]
ChiRaised(type) == [kind |-> type, num |-> 0, den |-> 1]
ChiValue(q) == [kind |-> "value", num |-> q[1], den |-> q[2]]

ChiIdle ==
    /\ model = <<>> /\ data = <<>> /\ errors = <<>>
    /\ chi_sq = <<0, 1>> /\ i = 0 /\ chi_pc = "idle" /\ chi_out = NoOutcome

\* What a call of aperture_grid ends with: the list returned or the exception
\* raised.
NoGrid == [kind |-> "none", pairs |-> <<>>]
GridRaised(type) == [kind |-> type, pairs |-> <<>>]
GridValue(pairs) == [kind |-> "value", pairs |-> pairs]

GridIdle ==
    /\ grid_pc = "idle" /\ naxis = <<0, 0>> /\ files = <<>> /\ spacing = 0
    /\ output = "" /\ clobber = FALSE /\ x_max = 0 /\ y_max = 0
    /\ ordered_pairs = <<>> /\ grid_out = NoGrid

MatchIdle ==
    /\ pc = "idle" /\ table_1 = NoTable /\ table_2 = NoTable /\ max_sep = 0
    /\ coords_1 = <<>> /\ coords_2 = <<>> /\ match_idx_12 = <<>> /\ sep_12 = <<>>
    /\ match_idx_21 = <<>> /\ idx_1 = 0 /\ idx_2 = <<>> /\ sep = <<>>
    /\ symmetric_12 = <<>> /\ matches = NoTable /\ matches_2 = NoTable
    /\ cols = <<>> /\ err = NoError /\ result = NoTable

----------------------------------------------------------------------------
(* symmetric_match *)

Init ==
    /\ \E inp \in Inputs :
        /\ table_1 = inp.t1
        /\ table_2 = inp.t2
        /\ max_sep = inp.max_sep
    /\ pc = "coords_1"
    /\ coords_1 = <<>> /\ coords_2 = <<>>
    /\ match_idx_12 = <<>> /\ sep_12 = <<>> /\ match_idx_21 = <<>>
    /\ idx_1 = 0 /\ idx_2 = <<>> /\ sep = <<>> /\ symmetric_12 = <<>>
    /\ matches = NoTable /\ matches_2 = NoTable /\ cols = <<>>
    /\ err = NoError /\ result = NoTable
    /\ ChiIdle
    /\ GridIdle

\* An exception leaves symmetric_match: nothing is returned.
Raise(type) ==
    /\ err' = Raised(type, pc)
    /\ pc' = "raised"

\* coords_1 = SkyCoord(table_1[ra_col_1], table_1[dec_col_1], unit=u.degree)
Coords1 ==
    /\ pc = "coords_1"
    /\ IF CoordsOk(table_1)
       THEN /\ coords_1' = SkyCoord(table_1)
            /\ pc' = "coords_2"
            /\ err' = err
       ELSE /\ Raise("ValueError")
            /\ coords_1' = coords_1
    /\ UNCHANGED <<table_1, table_2, max_sep, coords_2, match_idx_12, sep_12,
                   match_idx_21, idx_1, idx_2, sep, symmetric_12, matches,
                   matches_2, cols, result, chiVars, gridVars>>

\* coords_2 = SkyCoord(table_2[ra_col_2], table_2[dec_col_2], unit=u.degree)
Coords2 ==
    /\ pc = "coords_2"
    /\ IF CoordsOk(table_2)
       THEN /\ coords_2' = SkyCoord(table_2)
            /\ pc' = "match_12"
            /\ err' = err
       ELSE /\ Raise("ValueError")
            /\ coords_2' = coords_2
    /\ UNCHANGED <<table_1, table_2, max_sep, coords_1, match_idx_12, sep_12,
                   match_idx_21, idx_1, idx_2, sep, symmetric_12, matches,
                   matches_2, cols, result, chiVars, gridVars>>

\* match_idx_12, sep_12, dist_12 = match_coordinates_sky(coords_1, coords_2)
Match12 ==
    /\ pc = "match_12"
    /\ IF RefusesCatalog(coords_2)
       THEN /\ Raise("ValueError")
            /\ UNCHANGED <<match_idx_12, sep_12>>
       ELSE /\ \E m \in MatchCoordinatesSky(coords_1, coords_2) :
                /\ match_idx_12' = m
                /\ sep_12' = [a \in 1..Len(coords_1) |->
                                 Separation(coords_1[a], coords_2[m[a]])]
            /\ pc' = "match_21"
            /\ err' = err
    /\ UNCHANGED <<table_1, table_2, max_sep, coords_1, coords_2, match_idx_21,
                   idx_1, idx_2, sep, symmetric_12, matches, matches_2, cols,
                   result, chiVars, gridVars>>

\* match_idx_21, sep_21, dist_21 = match_coordinates_sky(coords_2, coords_1)
Match21 ==
    /\ pc = "match_21"
    /\ IF RefusesCatalog(coords_1)
       THEN /\ Raise("ValueError")
            /\ UNCHANGED <<match_idx_21, idx_1, symmetric_12>>
       ELSE /\ \E m \in MatchCoordinatesSky(coords_2, coords_1) :
                match_idx_21' = m
            /\ symmetric_12' = <<>>
            /\ idx_1' = 1
            /\ pc' = "symmetric"
            /\ err' = err
    /\ UNCHANGED <<table_1, table_2, max_sep, coords_1, coords_2, match_idx_12,
                   sep_12, idx_2, sep, matches, matches_2, cols, result, chiVars, gridVars>>

\* The test of the symmetry loop for row a of table_1:
\* idx_1 == match_idx_21[match_idx] and sep_12[idx_1].arcsec < max_sep
\* (The first three are faulty variants the properties are tried against: no
\* look back from table_2, <= for <, and a threshold one arcsecond too low.)
IsSymmetric_OneWay(a) == sep_12[a] < max_sep
IsSymmetric_Inclusive(a) == a = match_idx_21[match_idx_12[a]] /\ sep_12[a] <= max_sep
IsSymmetric_Tight(a) == a = match_idx_21[match_idx_12[a]] /\ sep_12[a] + 1 < max_sep
IsSymmetric(a) == a = match_idx_21[match_idx_12[a]] /\ sep_12[a] < max_sep

\* One turn of: for idx_1, match_idx in enumerate(match_idx_12)
CheckSymmetric ==
    /\ pc = "symmetric"
    /\ idx_1 <= Len(match_idx_12)
    /\ symmetric_12' =
          IF IsSymmetric(idx_1)
          THEN Append(symmetric_12, <<idx_1, match_idx_12[idx_1], sep_12[idx_1]>>)
          ELSE symmetric_12
    /\ idx_1' = idx_1 + 1
    /\ UNCHANGED <<pc, table_1, table_2, max_sep, coords_1, coords_2,
                   match_idx_12, sep_12, match_idx_21, idx_2, sep, matches,
                   matches_2, cols, err, result, chiVars, gridVars>>

\* idx_1, idx_2, sep = zip(*symmetric_12), and the three list() calls.
\* zip() of no argument yields nothing, and unpacking nothing into three
\* names raises ValueError.
Unzip ==
    /\ pc = "symmetric"
    /\ idx_1 > Len(match_idx_12)
    /\ IF Len(symmetric_12) = 0
       THEN /\ err' = Raised("ValueError", "unzip")
            /\ pc' = "raised"
            /\ UNCHANGED <<idx_1, idx_2, sep>>
       ELSE /\ idx_1' = [k \in 1..Len(symmetric_12) |-> symmetric_12[k][1]]
            /\ idx_2' = [k \in 1..Len(symmetric_12) |-> symmetric_12[k][2]]
            /\ sep' = [k \in 1..Len(symmetric_12) |-> symmetric_12[k][3]]
            /\ pc' = "index"
            /\ err' = err
    /\ UNCHANGED <<table_1, table_2, max_sep, coords_1, coords_2, match_idx_12,
                   sep_12, match_idx_21, symmetric_12, matches, matches_2, cols,
                   result, chiVars, gridVars>>

\* matches = table_1[idx_1]; matches_2 = table_2[idx_2]; and the evaluation
\* of matches_2.colnames that the merge loop iterates over.
Index ==
    /\ pc = "index"
    /\ matches' = TakeRows(table_1, idx_1)
    /\ matches_2' = TakeRows(table_2, idx_2)
    /\ cols' = table_2.colnames
    /\ pc' = "merge"
    /\ UNCHANGED <<table_1, table_2, max_sep, coords_1, coords_2, match_idx_12,
                   sep_12, match_idx_21, idx_1, idx_2, sep, symmetric_12, err,
                   result, chiVars, gridVars>>

\* The name a column of table_2 gets when table_1 has a column of that name.
\* (Renamed_OtherSuffix is a faulty variant with another suffix.)
Renamed_OtherSuffix(col) == col \o "_3"
Renamed(col) == col \o "_2"

\* One turn of: for col in matches_2.colnames.  rename_column raises KeyError
\* when the new name is a column of matches_2 already, add_column raises
\* ValueError when the name is a column of matches already.
MergeColumn ==
    /\ pc = "merge"
    /\ cols # <<>>
    /\ LET col == Head(cols)
       IN  IF Contains(matches.colnames, col)
           THEN IF Contains(matches_2.colnames, Renamed(col))
                THEN /\ err' = Raised("KeyError", "rename_column")
                     /\ pc' = "raised"
                     /\ UNCHANGED <<matches, matches_2, table_2, cols>>
                ELSE /\ matches_2' = RenameColumn(matches_2, col, Renamed(col))
                     /\ table_2' = IF SharesColumns
                                   THEN RenameColumn(table_2, col, Renamed(col))
                                   ELSE table_2
                     /\ IF Contains(matches.colnames, Renamed(col))
                        THEN /\ err' = Raised("ValueError", "add_column")
                             /\ pc' = "raised"
                             /\ UNCHANGED <<matches, cols>>
                        ELSE /\ matches' = AddColumn(matches, Renamed(col),
                                                     Column(matches_2', Renamed(col)))
                             /\ cols' = Tail(cols)
                             /\ UNCHANGED <<pc, err>>
           ELSE /\ matches' = AddColumn(matches, col, Column(matches_2, col))
                /\ cols' = Tail(cols)
                /\ UNCHANGED <<pc, err, matches_2, table_2>>
    /\ UNCHANGED <<table_1, max_sep, coords_1, coords_2, match_idx_12, sep_12,
                   match_idx_21, idx_1, idx_2, sep, symmetric_12, result, chiVars, gridVars>>

\* matches.add_column(table.Column(data=sep, name="sep [arcsec]"))
AddSep ==
    /\ pc = "merge"
    /\ cols = <<>>
    /\ IF Contains(matches.colnames, "sep [arcsec]")
       THEN /\ err' = Raised("ValueError", "add_sep")
            /\ pc' = "raised"
            /\ UNCHANGED matches
       ELSE /\ matches' = AddColumn(matches, "sep [arcsec]",
                                         [k \in 1..Len(sep) |-> Num(sep[k])])
            /\ pc' = "return"
            /\ err' = err
    /\ UNCHANGED <<table_1, table_2, max_sep, coords_1, coords_2, match_idx_12,
                   sep_12, match_idx_21, idx_1, idx_2, sep, symmetric_12,
                   matches_2, cols, result, chiVars, gridVars>>

\* return matches
Return ==
    /\ pc = "return"
    /\ result' = matches
    /\ pc' = "done"
    /\ UNCHANGED <<table_1, table_2, max_sep, coords_1, coords_2, match_idx_12,
                   sep_12, match_idx_21, idx_1, idx_2, sep, symmetric_12, matches,
                   matches_2, cols, err, chiVars, gridVars>>

Next ==
    \/ Coords1 \/ Coords2 \/ Match12 \/ Match21 \/ CheckSymmetric \/ Unzip
    \/ Index \/ MergeColumn \/ AddSep \/ Return

Spec == Init /\ [][Next]_vars

----------------------------------------------------------------------------
(* What the claims about symmetric_match speak of *)

Terminal == pc \in {"done", "raised"}

\* A table with a cell of ra or dec that is no number, or with a declination
\* outside [-90, 90] degrees.
Unreadable(t) ==
    \E k \in 1..Len(t.rows) :
        \/ ~ t.rows[k]["ra"].num
        \/ ~ t.rows[k]["dec"].num
        \/ t.rows[k]["dec"].v > QuarterCircle
        \/ t.rows[k]["dec"].v < 0 - QuarterCircle
NRows(t) == Len(t.rows)

\* The positions of the rows of the two input tables.
Pos1 == SkyCoord(table_1)
Pos2 == SkyCoord(table_2)

\* Row b of table_2 is a nearest neighbour of row a of table_1, row a is a
\* nearest neighbour of row b, and they are less than max_sep apart.
MutualNearest(a, b) ==
    /\ b \in Nearest(Pos1[a], Pos2)
    /\ a \in Nearest(Pos2[b], Pos1)
SymmetricPairs ==
    {ab \in (1..NRows(table_1)) \X (1..NRows(table_2)) :
        /\ MutualNearest(ab[1], ab[2])
        /\ Separation(Pos1[ab[1]], Pos2[ab[2]]) < max_sep}

\* The pairs the two nearest-neighbour searches made symmetric matches.
ComputedPairs ==
    {ab \in (1..NRows(table_1)) \X (1..NRows(table_2)) :
        /\ match_idx_12[ab[1]] = ab[2]
        /\ match_idx_21[ab[2]] = ab[1]
        /\ Separation(Pos1[ab[1]], Pos2[ab[2]]) < max_sep}

\* The columns the output is to have: those of table_1, those of table_2 with
\* the names table_1 has too suffixed, and the separation.
ExpectedColumns ==
    Range(table_1.colnames)
    \cup {IF Contains(table_1.colnames, c) THEN c \o "_2" ELSE c :
             c \in Range(table_2.colnames)}
    \cup {"sep [arcsec]"}

\* Output row k is made of row idx_1[k] of table_1 and row idx_2[k] of
\* table_2: it holds their right ascensions.
BuiltFrom(k, a, b) ==
    /\ idx_1[k] = a
    /\ idx_2[k] = b
    /\ result.rows[k]["ra"] = table_1.rows[a]["ra"]
    /\ result.rows[k]["ra_2"] = table_2.rows[b]["ra"]

----------------------------------------------------------------------------
\* C1: called on two non-empty catalogues with no symmetric match,
\* symmetric_match does not raise: it returns a table of zero rows that has
\* every column of table_1, every column of table_2 (a name of table_1
\* suffixed) and the separation column.
C1_ZeroMatchesReturnEmptyTable ==
    ( /\ Terminal
      /\ NRows(table_1) > 0 /\ NRows(table_2) > 0
      /\ ~ Unreadable(table_1) /\ ~ Unreadable(table_2)
      /\ SymmetricPairs = {} )
    => ( /\ pc = "done"
         /\ NRows(result) = 0
         /\ Range(result.colnames) = ExpectedColumns )

\* C2: every row of the returned table is made of a row a of table_1 and a
\* row b of table_2 such that b is the nearest neighbour of a in table_2 and
\* a the nearest neighbour of b in table_1: no row of table_2 is nearer to a
\* than b, none of table_1 nearer to b than a, and each search returned the
\* other.
C2_ReturnedPairsAreMutualNearest ==
    pc = "done" =>
        \A k \in 1..NRows(result) :
            /\ BuiltFrom(k, idx_1[k], idx_2[k])
            /\ MutualNearest(idx_1[k], idx_2[k])
            /\ match_idx_12[idx_1[k]] = idx_2[k]
            /\ match_idx_21[idx_2[k]] = idx_1[k]

\* A table is returned that leaves out a row of table_1 which is within
\* max_sep of its nearest neighbour, that neighbour being nearer to another.
C2_Witness ==
    /\ pc = "done"
    /\ NRows(result) > 0
    /\ \E a \in 1..NRows(table_1) :
        /\ sep_12[a] < max_sep
        /\ match_idx_21[match_idx_12[a]] # a
        /\ \A k \in 1..Len(idx_1) : idx_1[k] # a

\* C3: the separation recorded in every returned row is less than max_sep,
\* and it is the separation of the two rows the returned row is made of: a
\* pair max_sep or more apart is in no returned row, mutual nearest
\* neighbours or not.
C3_ReturnedSeparationBelowMaxSep ==
    pc = "done" =>
        /\ \A k \in 1..NRows(result) :
            /\ result.rows[k]["sep [arcsec]"].v < max_sep
            /\ result.rows[k]["sep [arcsec]"].v =
                   Separation(Pos1[idx_1[k]], Pos2[idx_2[k]])
        /\ \A a \in 1..NRows(table_1), b \in 1..NRows(table_2) :
            Separation(Pos1[a], Pos2[b]) >= max_sep
                => ~ \E k \in 1..NRows(result) : BuiltFrom(k, a, b)

\* A table is returned, and it leaves out two rows that each search returned
\* as the other's nearest neighbour and that are exactly max_sep apart.
C3_Witness ==
    /\ pc = "done"
    /\ \E a \in 1..NRows(table_1), b \in 1..NRows(table_2) :
        /\ match_idx_12[a] = b
        /\ match_idx_21[b] = a
        /\ Separation(Pos1[a], Pos2[b]) = max_sep
        /\ \A k \in 1..NRows(result) : idx_1[k] # a

\* C4: the returned table has one row for every symmetric match and no other
\* row: every pair (a, b) with nearest_B(a) = b, nearest_A(b) = a and a
\* separation below max_sep makes exactly one row, and the number of rows is
\* the number of such pairs.
C4_OneRowPerSymmetricMatch ==
    pc = "done" =>
        /\ \A ab \in ComputedPairs :
            Cardinality({k \in 1..NRows(result) : BuiltFrom(k, ab[1], ab[2])}) = 1
        /\ NRows(result) = Cardinality(ComputedPairs)
        /\ ComputedPairs \subseteq SymmetricPairs
        /\ \A ab \in SymmetricPairs :
            (Nearest(Pos1[ab[1]], Pos2) = {ab[2]} /\ Nearest(Pos2[ab[2]], Pos1) = {ab[1]})
                => ab \in ComputedPairs

\* A table is returned with fewer rows than either input table.
C4_Witness ==
    /\ pc = "done"
    /\ NRows(result) >= 1
    /\ NRows(result) < NRows(table_1)
    /\ NRows(result) < NRows(table_2)

\* C5: no row of table_1 and no row of table_2 is in two rows of the returned
\* table, also when rows are at the same separation from another row.
C5_OneToOne ==
    pc = "done" =>
        /\ NRows(result) = Len(idx_1)
        /\ NRows(result) = Len(idx_2)
        /\ \A k, l \in 1..NRows(result) :
            k # l => (idx_1[k] # idx_1[l] /\ idx_2[k] # idx_2[l])

\* A table is returned where two rows of table_1 are at the same separation,
\* below max_sep, from the row of table_2 that is the nearest neighbour of
\* both.
C5_Witness ==
    /\ pc = "done"
    /\ \E a, c \in 1..NRows(table_1) :
        /\ a # c
        /\ match_idx_12[a] = match_idx_12[c]
        /\ sep_12[a] = sep_12[c]
        /\ sep_12[a] < max_sep

\* C6, as claimed: called with a table of zero rows, symmetric_match fails
\* with an InvalidInput error raised when the input is validated, before any
\* nearest-neighbour search, and returns no table.
C6_EmptyCatalogInvalidInput ==
    (Terminal /\ (NRows(table_1) = 0 \/ NRows(table_2) = 0))
    => ( /\ pc = "raised"
         /\ err.type = "InvalidInput"
         /\ err.step \in {"coords_1", "coords_2"}
         /\ match_idx_12 = <<>> /\ match_idx_21 = <<>>
         /\ result = NoTable )

\* C6, amended: called with a table of zero rows, symmetric_match never
\* returns a table; it ends with a ValueError.  When both coordinate columns
\* are accepted the error comes from the nearest-neighbour search whose
\* catalogue is the empty table: the first search when table_2 is empty, and
\* otherwise the second search, made after the first one has returned.
C6_EmptyCatalogValueError ==
    (NRows(table_1) = 0 \/ NRows(table_2) = 0)
    => /\ pc # "done" /\ pc # "return"
       /\ result = NoTable
       /\ pc = "raised" =>
            /\ err.type = "ValueError"
            /\ err.step \in {"coords_1", "coords_2", "match_12", "match_21"}
            /\ (~ Unreadable(table_1) /\ ~ Unreadable(table_2)) =>
                 IF NRows(table_2) = 0
                 THEN err.step = "match_12" /\ match_idx_12 = <<>>
                 ELSE err.step = "match_21" /\ Len(match_idx_12) = 0
                      /\ coords_2 = Pos2

\* The call has failed in the second search: table_1 is empty, table_2 is not.
C6_Witness ==
    /\ pc = "raised"
    /\ NRows(table_1) = 0
    /\ NRows(table_2) > 0
    /\ err = Raised("ValueError", "match_21")

C8_InputsUnchanged == [][table_1' = table_1 /\ table_2' = table_2]_vars

\* The columns of matches_2 have been renamed, table_2 still has its names,
\* and the call has returned.
C8_Witness ==
    /\ pc = "done"
    /\ Contains(matches_2.colnames, "ra_2")
    /\ Contains(matches_2.colnames, "flux_2")
    /\ table_2.colnames = <<"ra", "dec", "flux">>

\* A right ascension or declination cell that is no number or is out of
\* range: outside [0, 360) degrees, outside [-90, 90] degrees.
BadCell(t, k) ==
    \/ ~ t.rows[k]["ra"].num
    \/ ~ t.rows[k]["dec"].num
    \/ t.rows[k]["ra"].v < 0 \/ t.rows[k]["ra"].v >= FullCircle
    \/ Abs(t.rows[k]["dec"].v) > QuarterCircle
BadRows(t) == {k \in 1..NRows(t) : BadCell(t, k)}

\* C9, as claimed: given a table with a row whose ra or dec is no number or
\* out of range, symmetric_match fails with an InvalidCoordinate error that
\* names the row and the table, and returns nothing.
C9_BadCoordinateRaisesInvalidCoordinate ==
    (Terminal /\ (BadRows(table_1) # {} \/ BadRows(table_2) # {}))
    => ( /\ pc = "raised"
         /\ err.type = "InvalidCoordinate"
         /\ err.rows # {}
         /\ err.rows \subseteq (IF BadRows(table_1) # {} THEN BadRows(table_1)
                                ELSE BadRows(table_2))
         /\ result = NoTable )

\* C9, amended: given a table with a cell of ra or dec that is no number, or
\* a dec outside [-90, 90] degrees, symmetric_match fails in the SkyCoord
\* construction of that table (of table_1 if both are bad) with a ValueError
\* that names no row, and returns nothing.  A right ascension outside
\* [0, 360) degrees is no error: it is taken modulo 360 degrees, and the
\* separations returned are those of the wrapped positions.
C9_BadCoordinateValueError ==
    /\ (Unreadable(table_1) \/ Unreadable(table_2)) =>
          /\ pc \in {"coords_1", "coords_2", "raised"}
          /\ result = NoTable
          /\ pc = "raised" =>
                err = Raised("ValueError",
                             IF Unreadable(table_1) THEN "coords_1" ELSE "coords_2")
    /\ (pc = "raised" /\ err.step \in {"coords_1", "coords_2"}) =>
          (Unreadable(table_1) \/ Unreadable(table_2))
    /\ pc = "done" =>
          \A k \in 1..NRows(result) :
              LET ra1 == table_1.rows[idx_1[k]]["ra"].v % FullCircle
                  ra2 == table_2.rows[idx_2[k]]["ra"].v % FullCircle
              IN  result.rows[k]["sep [arcsec]"].v =
                      Min(Abs(ra1 - ra2), FullCircle - Abs(ra1 - ra2))

\* The call has failed in the construction of coords_2, for a declination
\* above 90 degrees, after a right ascension above 360 degrees was accepted in
\* table_1.
C9_Witness ==
    /\ pc = "raised"
    /\ err.step = "coords_2"
    /\ \E k \in 1..NRows(table_1) : table_1.rows[k]["ra"].v >= FullCircle
    /\ \E k \in 1..NRows(table_2) : table_2.rows[k]["dec"].v > QuarterCircle

----------------------------------------------------------------------------
(* reduced_chi_sq(model, data, errors).  The division is the true division *)
(* of Python 3: chi_sq is the fraction <<numerator, denominator>>, never   *)
(* rounded.  The errors of the model are not 0.                            *)

ChiValues == {0, 1, 3}
ChiErrors == {1, 2, 3}

InitChi ==
    /\ model \in SeqsUpTo(ChiValues, MaxLen)
    /\ data \in SeqsUpTo(ChiValues, MaxLen)
    /\ errors \in SeqsUpTo(ChiErrors, MaxLen)
    /\ chi_sq = <<0, 1>>
    /\ i = 0
    /\ chi_pc = "check"
    /\ chi_out = NoOutcome
    /\ MatchIdle
    /\ GridIdle

\* len(model) == len(data) == len(errors)
\* (LengthsAgree_FirstTwo, AddTerm_Unsquared and DivideBy_One are faulty
\* variants the property is tried against.)
LengthsAgree_FirstTwo(m, d, e) == Len(m) = Len(d)
LengthsAgree(m, d, e) == Len(m) = Len(d) /\ Len(d) = Len(e)

\* q + ((m - d)/e)**2
AddTerm_Unsquared(q, m, d, e) == <<q[1] * e + Abs(m - d) * q[2], q[2] * e>>
AddTerm(q, m, d, e) == <<q[1] * e * e + (m - d) * (m - d) * q[2], q[2] * e * e>>

\* q/n
DivideBy_One(q, n) == q
DivideBy(q, n) == <<q[1], q[2] * n>>

\* if not len(model) == len(data) == len(errors): raise ValueError(...)
\* chi_sq = 0
ChiCheck ==
    /\ chi_pc = "check"
    /\ IF LengthsAgree(model, data, errors)
       THEN /\ chi_sq' = <<0, 1>>
            /\ i' = 1
            /\ chi_pc' = "loop"
            /\ chi_out' = chi_out
       ELSE /\ chi_out' = ChiRaised("ValueError")
            /\ chi_pc' = "raised"
            /\ UNCHANGED <<chi_sq, i>>
    /\ UNCHANGED <<model, data, errors, matchVars, gridVars>>

\* One turn of: for i in range(len(model)): chi_sq += ((model[i] - data[i])/errors[i])**2
\* An index past the end of data or errors raises IndexError.
ChiAccumulate ==
    /\ chi_pc = "loop"
    /\ i <= Len(model)
    /\ IF i <= Len(data) /\ i <= Len(errors)
       THEN /\ chi_sq' = AddTerm(chi_sq, model[i], data[i], errors[i])
            /\ i' = i + 1
            /\ UNCHANGED <<chi_pc, chi_out>>
       ELSE /\ chi_out' = ChiRaised("IndexError")
            /\ chi_pc' = "raised"
            /\ UNCHANGED <<chi_sq, i>>
    /\ UNCHANGED <<model, data, errors, matchVars, gridVars>>

\* return chi_sq/(len(data)): a division by 0 for empty lists.
ChiReturn ==
    /\ chi_pc = "loop"
    /\ i > Len(model)
    /\ IF Len(data) = 0
       THEN /\ chi_out' = ChiRaised("ZeroDivisionError")
            /\ chi_pc' = "raised"
       ELSE /\ chi_out' = ChiValue(DivideBy(chi_sq, Len(data)))
            /\ chi_pc' = "done"
    /\ UNCHANGED <<model, data, errors, chi_sq, i, matchVars, gridVars>>

NextChi == ChiCheck \/ ChiAccumulate \/ ChiReturn

SpecChi == InitChi /\ [][NextChi]_vars

----------------------------------------------------------------------------
(* What the claim about reduced_chi_sq speaks of *)

RECURSIVE ProductOfSquares(_, _)
\* The product of s[k]^2 over the indices k of the set K.
ProductOfSquares(s, K) ==
    IF K = {} THEN 1
    ELSE LET k == CHOOSE x \in K : TRUE
         IN  s[k] * s[k] * ProductOfSquares(s, K \ {k})

RECURSIVE ScaledResiduals(_)
\* The sum over k in K of (model[k] - data[k])^2 times the squares of all
\* errors but errors[k]: the sum of the squared normalised residuals times
\* the product of the squares of all errors.
ScaledResiduals(K) ==
    IF K = {} THEN 0
    ELSE LET k == CHOOSE x \in K : TRUE
         IN  (model[k] - data[k]) * (model[k] - data[k])
                 * ProductOfSquares(errors, (DOMAIN errors) \ {k})
             + ScaledResiduals(K \ {k})

SameLengths == Len(model) = Len(data) /\ Len(model) = Len(errors) /\ Len(data) = Len(errors)

\* C10: reduced_chi_sq raises an error whenever model, data and errors are
\* not of one length, before it has added any term (and raises that error in
\* no other case); for three lists of one length n >= 1 it returns the sum
\* over k of ((model[k] - data[k])/errors[k])^2, divided by n.
C10_ReducedChiSq ==
    /\ ~ SameLengths =>
          /\ chi_pc \in {"check", "raised"}
          /\ i = 0 /\ chi_sq = <<0, 1>>
          /\ chi_pc = "raised" => chi_out = ChiRaised("ValueError")
    /\ chi_out.kind = "ValueError" => ~ SameLengths
    /\ (SameLengths /\ Len(data) >= 1) =>
          /\ chi_pc # "raised"
          /\ chi_pc = "done" =>
                /\ chi_out.kind = "value"
                /\ chi_out.den > 0
                /\ chi_out.num * (ProductOfSquares(errors, DOMAIN errors) * Len(data))
                      = ScaledResiduals(DOMAIN model) * chi_out.den

\* A value has been returned for lists of two or more elements with
\* different errors and a residual that is not 0.
C10_Witness ==
    /\ chi_pc = "done"
    /\ Len(data) >= 2
    /\ errors[1] # errors[2]
    /\ model[1] # data[1]
    /\ chi_out.num > 0

----------------------------------------------------------------------------
(* Ties and the order of the returned rows *)

\* The rows of table_1 nearest to the one row of table_2, when table_2 has one
\* row, two or more rows of table_1 are at the same least separation from it,
\* and that separation is below max_sep; the empty set otherwise.
TiedRows ==
    IF /\ NRows(table_2) = 1
       /\ ~ Unreadable(table_1) /\ ~ Unreadable(table_2)
       /\ Cardinality(Nearest(Pos2[1], Pos1)) >= 2
       /\ \A a \in Nearest(Pos2[1], Pos1) : Separation(Pos1[a], Pos2[1]) < max_sep
    THEN Nearest(Pos2[1], Pos1)
    ELSE {}

\* C11, as claimed: when two rows of table_1 are at the same separation, below
\* max_sep, from a single row of table_2, exactly one match is returned, and
\* it is made of the row of table_1 with the lower index.
C11_TieGoesToLowerIndex ==
    (Terminal /\ TiedRows # {})
    => ( /\ pc = "done"
         /\ NRows(result) = 1
         /\ \A a \in TiedRows : idx_1[1] <= a )

\* C11, amended: in that case exactly one match is returned, made of the row
\* of table_2 and of one of the rows of table_1 at the least separation, the
\* one the search from table_2 returned; the other rows of table_1 are in no
\* returned row.  The code fixes no order among them.
C11_TieGoesToOneOfTheNearest ==
    (Terminal /\ TiedRows # {})
    => ( /\ pc = "done"
         /\ NRows(result) = 1
         /\ BuiltFrom(1, idx_1[1], 1)
         /\ idx_1[1] \in TiedRows
         /\ idx_1[1] = match_idx_21[1]
         /\ result.rows[1]["sep [arcsec]"].v = Separation(Pos1[idx_1[1]], Pos2[1]) )

\* A match has been returned for a tie, made of a row of table_1 that is not
\* the first of the tied rows.
C11_Witness ==
    /\ pc = "done"
    /\ TiedRows # {}
    /\ NRows(result) = 1
    /\ \E a \in TiedRows : a < idx_1[1]

\* C12: the returned rows are in the order of table_1: the table_1 indices
\* of consecutive rows increase strictly, and row k holds, in the columns of
\* table_1, the row of table_1 at its index, in the columns of table_2, the
\* row of table_2 that row was matched with, and their separation.
C12_RowsInTable1Order ==
    pc = "done" =>
        /\ \A k \in 1..(NRows(result) - 1) : idx_1[k] < idx_1[k + 1]
        /\ \A k \in 1..NRows(result) :
            LET a == idx_1[k]
                b == match_idx_12[a]
            IN  /\ \A c \in Range(table_1.colnames) :
                    result.rows[k][c] = table_1.rows[a][c]
                /\ \A c \in Range(table_2.colnames) :
                    result.rows[k][IF Contains(table_1.colnames, c)
                                   THEN c \o "_2" ELSE c] = table_2.rows[b][c]
                /\ result.rows[k]["sep [arcsec]"].v = Separation(Pos1[a], Pos2[b])
                /\ match_idx_21[b] = a

\* A table of two rows or more is returned whose rows of table_2 are not in
\* the order of table_2, and whose rows differ in a column of table_1.
C12_Witness ==
    /\ pc = "done"
    /\ NRows(result) >= 2
    /\ idx_2[1] > idx_2[2]
    /\ Contains(table_1.colnames, "flux")
    /\ result.rows[1]["flux"] # result.rows[2]["flux"]

----------------------------------------------------------------------------
(* aperture_grid(image, spacing, output=False, clobber=False), of phot.py. *)
(* A coordinate is held doubled, as a whole number of half pixels, so that *)
(* spacing/2.0 is a whole number for every whole spacing.                  *)

\* The names phot.py binds at module level (its imports and its functions),
\* and the names bound in the body of aperture_grid: its parameters and the
\* variables assigned before the use in question.
ModuleNames == {"fits", "utilities", "aperture_grid", "fit_gaussian_negative", "sky_error"}
LocalNames == {"image", "spacing", "output", "clobber", "header", "x_max", "y_max"}
Bound(name) == name \in ModuleNames \cup LocalNames

FileNames == {"coords.txt", "other.txt"}
Absent == [exists |-> FALSE, text |-> <<>>]
Holding(text) == [exists |-> TRUE, text |-> text]

\* utilities.check_if_file(name): whether a file of that name exists.
CheckIfFile(name) == files[name].exists

\* np.arange(step/2.0, stop, step), doubled: step, 3 step, 5 step, ... below
\* 2 stop.
Arange(stop, step) ==
    LET n == Cardinality({k \in 0..stop : step + 2 * k * step < 2 * stop})
    IN  [k \in 1..n |-> step + 2 * (k - 1) * step]

\* for x in xs: for y in ys: ordered_pairs.append((x, y))
OrderedPairs(xs, ys) ==
    [k \in 1..(Len(xs) * Len(ys)) |->
        <<xs[((k - 1) \div Len(ys)) + 1], ys[((k - 1) % Len(ys)) + 1]>>]

InitGrid ==
    /\ naxis \in (1..MaxAxis) \X (1..MaxAxis)
    /\ files \in [FileNames -> {Absent, Holding(<<>>)}]
    /\ spacing \in {1, 2}
    /\ output \in {""} \cup FileNames
    /\ clobber \in BOOLEAN
    /\ grid_pc = "check"
    /\ x_max = 0 /\ y_max = 0
    /\ ordered_pairs = <<>>
    /\ grid_out = NoGrid
    /\ MatchIdle
    /\ ChiIdle

\* if output and not clobber:
\*     if utilities.check_if_file(coords_file): raise IOError(...)
\* aperture_grid has no name coords_file, and phot.py has none: reading it
\* raises NameError.
GridCheck ==
    /\ grid_pc = "check"
    /\ IF output # "" /\ ~ clobber
       THEN IF ~ Bound("coords_file")
            THEN /\ grid_out' = GridRaised("NameError")
                 /\ grid_pc' = "raised"
            ELSE IF CheckIfFile(output)
                 THEN /\ grid_out' = GridRaised("IOError")
                      /\ grid_pc' = "raised"
                 ELSE /\ grid_pc' = "header"
                      /\ grid_out' = grid_out
       ELSE /\ grid_pc' = "header"
            /\ grid_out' = grid_out
    /\ UNCHANGED <<naxis, files, spacing, output, clobber, x_max, y_max,
                   ordered_pairs, matchVars, chiVars>>

\* header = fits.getheader(image); x_max = header["NAXIS1"]; y_max = header["NAXIS2"]
GridHeader ==
    /\ grid_pc = "header"
    /\ x_max' = naxis[1]
    /\ y_max' = naxis[2]
    /\ grid_pc' = "arange"
    /\ UNCHANGED <<naxis, files, spacing, output, clobber, ordered_pairs,
                   grid_out, matchVars, chiVars>>

\* xs = np.arange(spacing / 2.0, x_max, spacing) and all that follows it: the
\* pairs, the writing of the output file, the return.  phot.py never imports
\* np: reading the name raises NameError, and nothing after it is run.
GridBuild ==
    /\ grid_pc = "arange"
    /\ IF ~ Bound("np")
       THEN /\ grid_out' = GridRaised("NameError")
            /\ grid_pc' = "raised"
            /\ UNCHANGED <<ordered_pairs, files>>
       ELSE LET pairs == OrderedPairs(Arange(x_max, spacing), Arange(y_max, spacing))
            IN  /\ ordered_pairs' = pairs
                /\ files' = IF output # ""
                            THEN [files EXCEPT ![output] = Holding(pairs)]
                            ELSE files
                /\ grid_out' = GridValue(pairs)
                /\ grid_pc' = "done"
    /\ UNCHANGED <<naxis, spacing, output, clobber, x_max, y_max, matchVars, chiVars>>

NextGrid == GridCheck \/ GridHeader \/ GridBuild

SpecGrid == InitGrid /\ [][NextGrid]_vars

\* The places of the grid, doubled: spacing/2 + j spacing below NAXIS1 by
\* spacing/2 + k spacing below NAXIS2.
GridPlaces ==
    {<<spacing + 2 * j * spacing, spacing + 2 * k * spacing>> :
        j \in {n \in 0..naxis[1] : spacing + 2 * n * spacing < 2 * naxis[1]},
        k \in {n \in 0..naxis[2] : spacing + 2 * n * spacing < 2 * naxis[2]}}

\* C13: aperture_grid called with the name of an output file and clobber
\* False raises an error exactly when a file of that name exists; in every
\* other case it returns the list of all the places of the grid, each once,
\* and has written them to the output file when one is named.
C13_GridRaisesOnlyForExistingFile ==
    grid_pc \in {"done", "raised"} =>
        IF output # "" /\ ~ clobber /\ files[output].exists
        THEN grid_pc = "raised"
        ELSE /\ grid_pc = "done"
             /\ grid_out.kind = "value"
             /\ Range(grid_out.pairs) = GridPlaces
             /\ Len(grid_out.pairs) = Cardinality(GridPlaces)
             /\ output # "" => files[output] = Holding(grid_out.pairs)

====
